---- MODULE Spec2Model ----
(***************************************************************************)
(* Model of init.py: init_collaboration(), the initializer that ensures    *)
(* logs/ and the three template files logs/ai_chat.md, logs/dev_log.md and *)
(* logs/archived_logs.md exist, and prints status lines and instructions.  *)
(*                                                                         *)
(* Each run of the script is a process p.  Under Spec the runs are         *)
(* sequential (run p+1 starts only after run p has ended); under SpecConc  *)
(* the runs are concurrent processes sharing the working directory.        *)
(* The filesystem is the shared state: the kind of the entry "logs" and    *)
(* the content of each of the three files.  The wall clock is advanced by  *)
(* the environment (Tick).  A filesystem call either succeeds or raises;   *)
(* the script has no try/except, so a raised error ends the run.  Under    *)
(* SpecConc a call raises only where it must (mkdir on a plain file logs). *)
(*                                                                         *)
(* A step of a process is one interaction with the filesystem or the clock *)
(* together with the print statements around it, up to the next such       *)
(* interaction; the lines are appended to out in the order of the code.    *)
(***************************************************************************)
EXTENDS Integers, Sequences, FiniteSets

\* ------------------------------------------------------------- bounds
NumProcs == 2          \* runs (Spec) or concurrent processes (SpecConc)
MaxTicks == 1          \* the clock advances at most MaxTicks times
TicksPerSecond == 2    \* clock ticks in one second of the formatted stamp

Procs == 1..NumProcs

\* ------------------------------------------------------------- names
FileOrder == <<"ai_chat.md", "dev_log.md", "archived_logs.md">>
Files == {FileOrder[i] : i \in 1..Len(FileOrder)}
\* (variant: the dev_log.md and archived_logs.md blocks in the other order)
FileAtSwapped(i) == FileOrder[IF i = 2 THEN 3 ELSE IF i = 3 THEN 2 ELSE i]
FileAt(i) == FileOrder[i]
\* the two templates that are f-strings embedding datetime.now()
Timestamped == {"dev_log.md", "archived_logs.md"}

\* ------------------------------------------------------------- contents
Absent == [kind |-> "absent", ts |-> 0]
Custom == [kind |-> "custom", ts |-> 0]
\* what a write_text that opened (truncated) the file and then failed leaves
Truncated == [kind |-> "truncated", ts |-> 0]

\* the clock when the first run starts: the last tick of a second
FirstTick == TicksPerSecond - 1

\* strftime('%Y-%m-%d %H:%M:%S'): the stamp keeps whole seconds only
Strftime(t) == t \div TicksPerSecond

\* the text write_text is given for file f, s being the stamp formatted for it
Template(f, s) ==
  IF f \in Timestamped
    THEN [kind |-> "template:" \o f, ts |-> s]
    ELSE [kind |-> "template:" \o f, ts |-> 0]

\* ------------------------------------------------------------- console
Line(k, f) == [k |-> k, f |-> f]
Banner == Line("initializing", "")
DirLine == Line("created", "logs/")
CreatedLine(f) == Line("created", f)
\* (variant: the else branch prints the line of the if branch)
ExistsLineAsCreated(f) == Line("created", f)
ExistsLine(f) == Line("already exists", f)
Instructions == Line("setup instructions", "")

VARIABLES
  dir,      \* "absent" | "dir" | "file": the entry logs in the working directory
  files,    \* file name -> content
  clock,    \* wall clock, in ticks
  pc,       \* process -> position in init_collaboration
  cur,      \* process -> index in FileOrder of the file block it is in
  stamp,    \* process -> the stamp formatted last: datetime.now().strftime(..)
  out,      \* process -> lines printed so far
  pre,      \* history (sequential runs): run -> filesystem when it started
  wrote,    \* history: process -> files this run wrote in full
  err,      \* history: process -> step whose filesystem call raised
  fs0,      \* history: the initial file contents
  writes,   \* history: file -> number of times its content was set
  mkdirBy   \* history: processes whose mkdir created logs/

vars == <<dir, files, clock, pc, cur, stamp, out, pre, wrote, err,
          fs0, writes, mkdirBy>>

procVars == <<pc, cur, stamp, out, pre, wrote, err>>

\* ------------------------------------------------------------- Init
\* any working directory: logs absent, logs a plain file, or logs a directory
\* holding any subset of the three files with content of the user's own
InitFiles ==
  IF dir = "dir" THEN files \in [Files -> {Absent, Custom}]
                 ELSE files = [f \in Files |-> Absent]

Init ==
  /\ dir \in {"absent", "dir", "file"}
  /\ InitFiles
  /\ clock = FirstTick
  /\ pc = [p \in Procs |-> "idle"]
  /\ cur = [p \in Procs |-> 0]
  /\ stamp = [p \in Procs |-> 0]
  /\ out = [p \in Procs |-> <<>>]
  /\ pre = [p \in Procs |-> [dir |-> "absent", files |-> {}]]
  /\ wrote = [p \in Procs |-> {}]
  /\ err = [p \in Procs |-> "none"]
  /\ fs0 = files
  /\ writes = [f \in Files |-> 0]
  /\ mkdirBy = {}

\* ------------------------------------------------------------- helpers
\* Path.exists()
\* (variants: the check is dropped; dev_log.md is looked up at a path where
\* it never is)
ExistsNever(f) == FALSE
ExistsWrongPath(f) == IF f = "dev_log.md" THEN FALSE ELSE files[f].kind # "absent"
Exists(f) == files[f].kind # "absent"

\* the files in logs/
Present == {f \in Files : files[f] # Absent}

Ended(p) == pc[p] \in {"done", "failed"}

\* an uncaught exception leaves init_collaboration and the script
\* (variant: the exception is caught and the run returns normally)
AfterErrorSwallowed(p, step) ==
  /\ pc' = [pc EXCEPT ![p] = "done"]
  /\ err' = [err EXCEPT ![p] = step]
AfterError(p, step) ==
  /\ pc' = [pc EXCEPT ![p] = "failed"]
  /\ err' = [err EXCEPT ![p] = step]

\* where the run goes after file block i: the next block, or lines 87-117
\* and the return
\* (variant: the last block is skipped)
AfterBlockSkipLast(i) == IF i < Len(FileOrder) - 1 THEN "check" ELSE "done"
AfterBlock(i) == IF i < Len(FileOrder) THEN "check" ELSE "done"
NextBlock(i) == IF i < Len(FileOrder) THEN i + 1 ELSE i

\* the lines printed after the status line of file block i: none, or after
\* the last block the fixed setup instructions of lines 88-117
Closing(i) == IF AfterBlock(i) = "done" THEN <<Instructions>> ELSE <<>>

\* ------------------------------------------------------------- actions
\* lines 12-17: the run starts: the banner is printed, mkdir(exist_ok=True)
\* returns (logs/ is created, or os.mkdir raised and logs is a directory:
\* exist_ok swallows the error), and "Created logs/ directory" is printed
\* in both cases
MkdirOk(p) ==
  /\ pc[p] = "idle"
  /\ dir \in {"absent", "dir"}
  /\ dir' = "dir"
  /\ mkdirBy' = IF dir = "absent" THEN mkdirBy \cup {p} ELSE mkdirBy
  /\ out' = [out EXCEPT ![p] = <<Banner, DirLine>>]
  /\ pc' = [pc EXCEPT ![p] = "check"]
  /\ cur' = [cur EXCEPT ![p] = 1]
  /\ UNCHANGED <<files, clock, stamp, wrote, err, fs0, writes>>

\* lines 12-16: the run starts: the banner is printed and mkdir raises: logs
\* is a plain file (FileExistsError), or logs is absent and cannot be
\* created (e.g. PermissionError)
MkdirFail(p) ==
  /\ pc[p] = "idle"
  /\ dir \in {"absent", "file"}
  /\ out' = [out EXCEPT ![p] = <<Banner>>]
  /\ AfterError(p, "mkdir")
  /\ UNCHANGED <<dir, files, clock, cur, stamp, wrote, fs0, writes, mkdirBy>>

\* sequential runs: run p starts once every earlier run has ended
StartSeq(p) ==
  /\ \A q \in Procs : q < p => Ended(q)
  /\ \A q \in Procs : q > p => pc[q] = "idle"
  /\ MkdirOk(p) \/ MkdirFail(p)
  /\ pre' = [pre EXCEPT ![p] = [dir |-> dir, files |-> Present]]

\* concurrent processes: any process may start at any time; mkdir raises
\* only where it cannot but raise (logs is a plain file)
StartConc(p) ==
  /\ MkdirOk(p) \/ (dir = "file" /\ MkdirFail(p))
  /\ UNCHANGED pre

\* lines 21, 55, 74: if not <file>.exists(); lines 50-51, 69-70, 84-85: else
\* print "already exists" and go on to the next block (after the last block:
\* print the setup instructions and return)
Check(p) ==
  LET f == FileAt(cur[p]) IN
  /\ pc[p] = "check"
  /\ IF Exists(f)
       THEN /\ out' = [out EXCEPT ![p] = Append(@, ExistsLine(f)) \o Closing(cur[p])]
            /\ pc' = [pc EXCEPT ![p] = AfterBlock(cur[p])]
            /\ cur' = [cur EXCEPT ![p] = NextBlock(@)]
       ELSE /\ pc' = [pc EXCEPT ![p] = IF f \in Timestamped THEN "now" ELSE "write"]
            /\ UNCHANGED <<out, cur>>
  /\ UNCHANGED <<dir, files, clock, stamp, pre, wrote, err, fs0, writes, mkdirBy>>

\* lines 58, 77: datetime.now().strftime(..), evaluated while the f-string
\* is built, before write_text is called
\* (variant: the stamp formatted for dev_log.md is used again)
NowReadOnce(p) == IF FileAt(cur[p]) = "dev_log.md" THEN Strftime(clock) ELSE stamp[p]
NowRead(p) == Strftime(clock)

Now(p) ==
  /\ pc[p] = "now"
  /\ stamp' = [stamp EXCEPT ![p] = NowRead(p)]
  /\ pc' = [pc EXCEPT ![p] = "write"]
  /\ UNCHANGED <<dir, files, clock, cur, out, pre, wrote, err, fs0, writes, mkdirBy>>

\* write_text opens the path with mode "w": whatever is there is replaced
\* (variant: exclusive creation, an existing file is left alone)
WriteAllowedExclusive(f) == ~Exists(f)
WriteAllowed(f) == TRUE

\* lines 22-49, 56-68, 75-83: write_text returns, "Created ..." is printed
\* (after the last block: the setup instructions are printed, the run returns)
WriteOk(p) ==
  LET f == FileAt(cur[p]) IN
  /\ pc[p] = "write"
  /\ IF WriteAllowed(f)
       THEN /\ files' = [files EXCEPT ![f] = Template(f, stamp[p])]
            /\ writes' = [writes EXCEPT ![f] = @ + 1]
            /\ wrote' = [wrote EXCEPT ![p] = @ \cup {f}]
       ELSE UNCHANGED <<files, writes, wrote>>
  /\ out' = [out EXCEPT ![p] = Append(@, CreatedLine(f)) \o Closing(cur[p])]
  /\ pc' = [pc EXCEPT ![p] = AfterBlock(cur[p])]
  /\ cur' = [cur EXCEPT ![p] = NextBlock(@)]
  /\ UNCHANGED <<dir, clock, stamp, pre, err, fs0, mkdirBy>>

\* lines 22, 56, 75: write_text raises in open(): nothing is changed
WriteFailOpen(p) ==
  /\ pc[p] = "write"
  /\ AfterError(p, "write")
  /\ UNCHANGED <<dir, files, clock, cur, stamp, out, pre, wrote, fs0, writes, mkdirBy>>

\* lines 22, 56, 75: write_text raises after open() truncated the file
WriteFailTruncated(p) ==
  LET f == FileAt(cur[p]) IN
  /\ pc[p] = "write"
  /\ files' = [files EXCEPT ![f] = Truncated]
  /\ writes' = [writes EXCEPT ![f] = @ + 1]
  /\ AfterError(p, "write")
  /\ UNCHANGED <<dir, clock, cur, stamp, out, pre, wrote, fs0, mkdirBy>>

\* the wall clock advances
Tick ==
  /\ clock < FirstTick + MaxTicks
  /\ clock' = clock + 1
  /\ UNCHANGED <<dir, files, procVars, fs0, writes, mkdirBy>>

\* the steps of a started run whose filesystem or clock call returns
Step(p) ==
  \/ Check(p)
  \/ Now(p)
  \/ WriteOk(p)

\* the steps of a started run whose filesystem call raises
Fault(p) ==
  \/ WriteFailOpen(p)
  \/ WriteFailTruncated(p)

Next ==
  \/ \E p \in Procs : StartSeq(p)
  \/ \E p \in Procs : Step(p)
  \/ \E p \in Procs : Fault(p)
  \/ Tick

NextConc ==
  \/ \E p \in Procs : StartConc(p)
  \/ \E p \in Procs : Step(p)
  \/ Tick

\* sequential runs of the script, any filesystem call of which may raise
Spec == Init /\ [][Next]_vars

\* the script started by several processes in the same working directory,
\* on a filesystem whose calls raise only where they must
SpecConc == Init /\ [][NextConc]_vars

\* ------------------------------------------------------------- properties
InOut(p, l) == \E k \in 1..Len(out[p]) : out[p][k] = l
Count(p, l) == Cardinality({k \in 1..Len(out[p]) : out[p][k] = l})
IsTemplate(c) == c.kind \notin {"absent", "custom", "truncated"}
AllEnded == \A p \in Procs : pc[p] \in {"done", "failed"}
AllDone == \A p \in Procs : pc[p] = "done"

\* C1: over any sequence of runs no step changes the content of a file that
\* exists, whatever that content is; the content of each file is set at most
\* once, and only if the file was absent initially, by a run that started
\* with the file absent.
C1_ExistingContentPreserved ==
  /\ [](\A f \in Files :
          /\ writes[f] <= 1
          /\ writes[f] = 1 => fs0[f] = Absent
          /\ Cardinality({p \in Procs : f \in wrote[p]}) <= writes[f]
          /\ \A p \in Procs : f \in wrote[p] => f \notin pre[p].files)
  /\ [][\A f \in Files : files[f] # Absent => files'[f] = files[f]]_vars

C1_Witness ==
  /\ AllDone
  /\ \E f, g \in Files :
       /\ fs0[f] = Custom /\ files[f] = Custom
       /\ fs0[g] = Absent /\ writes[g] = 1 /\ g \in wrote[1]

\* C2: once a run has completed, no step of any later run changes the
\* content of any of the three files, stamps included, however far the
\* clock has advanced: the contents after the second run are those after
\* the first.
C2_Idempotent ==
  [][(\E p \in Procs : pc[p] = "done") => files' = files]_vars

C2_Witness ==
  /\ pc[1] = "done" /\ pc[2] = "done"
  /\ "dev_log.md" \in wrote[1]
  /\ files["dev_log.md"].ts # clock \div TicksPerSecond

\* C3: a run ends in error only if a filesystem call raised, a started run
\* can always take a step that raises nothing, and a run that completes
\* ends with logs/ and the three files existing, having raised no error and
\* having created exactly what was absent when it started: the files it
\* wrote are those absent at its start, and it created logs/ iff logs/ was
\* absent.
C3_CreatesExactlyTheMissing ==
  \A p \in Procs :
    /\ pc[p] = "failed" => err[p] # "none"
    /\ pc[p] \in {"check", "now", "write"} => ENABLED Step(p)
    /\ pc[p] = "done" =>
         /\ err[p] = "none"
         /\ dir = "dir"
         /\ \A f \in Files : files[f] # Absent
         /\ wrote[p] = Files \ pre[p].files
         /\ \A f \in wrote[p] : IsTemplate(files[f])
         /\ \A f \in pre[p].files : fs0[f] = Absent \/ files[f] = fs0[f]
         /\ (p \in mkdirBy) <=> (pre[p].dir = "absent")

C3_Witness ==
  \E p \in Procs :
    /\ pc[p] = "done"
    /\ pre[p] = [dir |-> "absent", files |-> {}]
    /\ p \in mkdirBy
    /\ wrote[p] = {"ai_chat.md", "dev_log.md", "archived_logs.md"}

\* C4: the output of a run that completes holds exactly one status line per
\* file: "already exists" iff the file was present before the run, and
\* "Created" iff it was absent before the run and written by the run.
C4_OneStatusLinePerFile ==
  \A p \in Procs : pc[p] = "done" =>
    \A f \in Files :
      /\ Count(p, Line("created", f)) + Count(p, Line("already exists", f)) = 1
      /\ InOut(p, Line("already exists", f)) <=> (f \in pre[p].files)
      /\ InOut(p, Line("created", f)) <=> (f \notin pre[p].files /\ f \in wrote[p])

C4_Witness ==
  \E p \in Procs :
    /\ pc[p] = "done"
    /\ "ai_chat.md" \in pre[p].files
    /\ "dev_log.md" \notin pre[p].files
    /\ InOut(p, Line("already exists", "ai_chat.md"))
    /\ InOut(p, Line("created", "dev_log.md"))

\* C5: the stamp a run formats for dev_log.md or archived_logs.md is the
\* clock at that read, to the second, read anew for each file; the stamp
\* written into the file is the one formatted for it; and no later step
\* changes a stamp once written.
C5_StampIsClockAtCreation ==
  [][/\ \A p \in Procs : pc[p] = "now" /\ pc'[p] = "write" =>
          stamp'[p] = clock \div TicksPerSecond
     /\ \A f \in {"dev_log.md", "archived_logs.md"} :
          /\ (files'[f] # files[f] /\ IsTemplate(files'[f])) =>
               \E p \in Procs : /\ pc[p] = "write" /\ pc'[p] # "write"
                                /\ FileOrder[cur[p]] = f
                                /\ files'[f].ts = stamp[p]
          /\ IsTemplate(files[f]) => files'[f] = files[f]]_vars

C5_Witness ==
  /\ AllDone
  /\ {"dev_log.md", "archived_logs.md"} \subseteq wrote[1]
  /\ files["dev_log.md"].ts # files["archived_logs.md"].ts

\* C6: a run whose filesystem call raised is in the error state for good:
\* it has printed nothing after the failing step (no status line of that or
\* a later file, no instructions), has written no later file, and what its
\* earlier steps created is still there.
C6_FailureEndsRun ==
  \A p \in Procs : err[p] # "none" =>
    /\ pc[p] = "failed"
    /\ ~InOut(p, Instructions)
    /\ err[p] = "mkdir" => out[p] = <<Banner>> /\ wrote[p] = {} /\ p \notin mkdirBy
    /\ err[p] = "write" =>
         /\ Len(out[p]) = 1 + cur[p]
         /\ \A i \in 1..Len(FileOrder) : i >= cur[p] =>
              /\ ~InOut(p, Line("created", FileOrder[i]))
              /\ ~InOut(p, Line("already exists", FileOrder[i]))
              /\ FileOrder[i] \notin wrote[p]
         /\ dir = "dir"
    /\ \A f \in wrote[p] : IsTemplate(files[f])

C6_Witness ==
  \E p \in Procs :
    /\ pc[p] = "failed" /\ err[p] = "write" /\ cur[p] = 2
    /\ p \in mkdirBy /\ dir = "dir"
    /\ "ai_chat.md" \in wrote[p] /\ IsTemplate(files["ai_chat.md"])
    /\ AllEnded

\* C7 as stated: a status line of a file is in the output only once all
\* three file steps have been done.
HasStatusLine(p) ==
  \E f \in Files : InOut(p, Line("created", f)) \/ InOut(p, Line("already exists", f))

C7_StatusLinesAfterAllFileSteps ==
  \A p \in Procs : HasStatusLine(p) => pc[p] = "done"

\* C7 amended: the output is, in this order, the banner, the logs/ line
\* (once logs/ is ensured), then for ai_chat.md, dev_log.md, archived_logs.md
\* in that order the status line of the file, emitted as soon as the step of
\* that file is done and before the next file is checked, and last, after
\* the three file steps, the setup instructions.
StatusOf(i, l) ==
  LET name == <<"ai_chat.md", "dev_log.md", "archived_logs.md">>[i] IN
  /\ l \in {Line("created", name), Line("already exists", name)}
  /\ files[name] # Absent

C7_OutputOrder ==
  \A p \in Procs :
    /\ pc[p] = "idle" => out[p] = <<>>
    /\ pc[p] \in {"check", "now", "write"} => Len(out[p]) = 1 + cur[p]
    /\ pc[p] = "done" => Len(out[p]) = 6 /\ out[p][6] = Instructions
    /\ Len(out[p]) <= 6
    /\ Len(out[p]) >= 1 => out[p][1] = Banner
    /\ Len(out[p]) >= 2 => out[p][2] = Line("created", "logs/") /\ dir = "dir"
    /\ \A i \in 1..3 : Len(out[p]) >= 2 + i => StatusOf(i, out[p][2 + i])

C7_Witness ==
  \E p \in Procs :
    /\ pc[p] = "done"
    /\ out[p] = <<Banner, Line("created", "logs/"),
                  Line("already exists", "ai_chat.md"),
                  Line("created", "dev_log.md"),
                  Line("created", "archived_logs.md"), Instructions>>

\* C8: with concurrent processes the existence check does not guard the
\* write: every process that found the file absent and whose write_text
\* returned has written the file and reports it created, also when another
\* process created it in between, so a file can be written more than once.
C8_CheckThenWriteRace ==
  \A f \in Files :
    /\ \A p \in Procs : InOut(p, Line("created", f)) <=> f \in wrote[p]
    /\ writes[f] >= Cardinality({p \in Procs : f \in wrote[p]})
    /\ \A p \in Procs : f \in wrote[p] => IsTemplate(files[f])

C8_Witness ==
  \E p, q \in Procs :
    /\ p # q
    /\ pc[p] = "done" /\ pc[q] = "done"
    /\ "archived_logs.md" \in wrote[p] \cap wrote[q]
    /\ writes["archived_logs.md"] = 2
    /\ InOut(p, Line("created", "archived_logs.md"))
    /\ InOut(q, Line("created", "archived_logs.md"))
    /\ stamp[p] # stamp[q]
    /\ files["archived_logs.md"].ts = stamp[q]

\* C9 as stated: the run prints "Created logs/ directory" only when logs/
\* was absent before the run and the run created it.
C9_DirLineOnlyWhenCreated ==
  \A p \in Procs :
    InOut(p, Line("created", "logs/")) => pre[p].dir = "absent" /\ p \in mkdirBy

\* C10: under any interleaving of the processes, a file that existed before
\* the first process started is never written: its content is its initial
\* content in every reachable state.
C10_PreexistingNeverWritten ==
  \A f \in Files : fs0[f] # Absent => files[f] = fs0[f] /\ writes[f] = 0

C10_Witness ==
  /\ AllDone
  /\ \E f, g \in Files :
       /\ fs0[f] = Custom /\ files[f] = Custom
       /\ writes[g] >= 2

====
